---- MODULE Spec2Model ----
(***************************************************************************)
(* RankPruning (src/cleanlab/classification.py): the estimator that wraps  *)
(* a classifier, estimates the label-noise structure of (X, s), prunes the *)
(* examples judged mislabeled and fits the wrapped classifier on the rest. *)
(*                                                                         *)
(* One estimator object is followed through its life: construction, then   *)
(* fit / predict / predict_proba / score calls.  Every call is one action  *)
(* that runs the whole method; `log` holds, in order, the calls the method *)
(* made to its collaborators, and `call` what the caller passed and got.   *)
(*                                                                         *)
(* Probabilities are integers in units of 1/Unit, so a matrix column sums  *)
(* to Unit and "trace <= 1" reads Trace(m) <= Unit.  A feature matrix X is  *)
(* the sequence of its example ids; s is the sequence of noisy labels.     *)
(* The routines imported from cleanlab.util, cleanlab.latent_estimation,   *)
(* cleanlab.latent_algebra and cleanlab.pruning are not part of the        *)
(* sources at hand: what they return is chosen by the environment from the *)
(* values their documented contract allows (the record `o` of Fit).        *)
(* The hyper-parameters prune_method, prune_count_method and               *)
(* converge_latent_estimates and the argument thresholds are only handed   *)
(* on to those routines and decide no branch of this file; they are left   *)
(* out.                                                                    *)
(*                                                                         *)
(* The issue-manager registry (src/cleanlab/datalab/internal/              *)
(* issue_manager_factory.py) is independent of the estimator: FactorySpec  *)
(* follows the calls of that module on REGISTRY, RefitSpec an estimator    *)
(* that is fitted more than once.                                          *)
(***************************************************************************)
EXTENDS Integers, Sequences, FiniteSets, TLC

\* Bounds of the model.
MaxN == 4          \* examples in a dataset
Unit == 4          \* resolution of a probability: p is written p * Unit
MaxFits == 1       \* fit calls followed on one estimator
MaxTypes == 2      \* issue types in one from_list call
MaxRefits == 2     \* fit calls followed on one estimator that is fitted again

VARIABLES rp, np_random_state, log, call, fits, REGISTRY

vars == <<rp, np_random_state, log, call, fits, REGISTRY>>

----------------------------------------------------------------------------
\* Python values: None, an attribute never assigned, and a value.
None == [kind |-> "none"]
Unset == [kind |-> "unset"]
Val(v) == [kind |-> "value", val |-> v]
IsNone(x) == x.kind = "none"
IsVal(x) == x.kind = "value"

\* One call made by a method: the callee, its arguments, what it returned.
Evt(op, args, ret) == [op |-> op, args |-> args, ret |-> ret]
Raised == [kind |-> "raised"]

Ops(l) == {l[i].op : i \in DOMAIN l}

----------------------------------------------------------------------------
\* Wrapped classifiers, by the capabilities the estimator probes.
Clf(f, pp, p, fsw, sc, ssw) ==
    [has_fit |-> f, has_predict_proba |-> pp, has_predict |-> p,
     fit_sample_weight |-> fsw, has_score |-> sc, score_sample_weight |-> ssw,
     trained |-> Unset]

logreg == Clf(TRUE, TRUE, TRUE, TRUE, TRUE, TRUE)
UnweightedClf == Clf(TRUE, TRUE, TRUE, FALSE, TRUE, FALSE)
NoScoreClf == Clf(TRUE, TRUE, TRUE, TRUE, FALSE, FALSE)
NoFitClf == Clf(FALSE, TRUE, TRUE, FALSE, TRUE, TRUE)
NoPredictProbaClf == Clf(TRUE, FALSE, TRUE, TRUE, TRUE, TRUE)
NoPredictClf == Clf(TRUE, TRUE, FALSE, TRUE, TRUE, TRUE)

ClfArgs == {None} \cup {Val(c) : c \in {UnweightedClf, NoScoreClf, NoFitClf,
                                         NoPredictProbaClf, NoPredictClf}}
SeedArgs == {None, Val(0)}
\* s is "a binary vector of labels".
Labels == {0, 1}

PulearningArgs == {None} \cup {Val(c) : c \in Labels}
CvFoldsArgs == {2}

NoEstimator == [kind |-> "absent"]
AmbientState == [seeded |-> None, drawn |-> FALSE]

----------------------------------------------------------------------------
\* The checks without the one for predict.
InitErrorFitOnly(clf) ==
    IF ~clf.has_fit THEN Val("The classifier (clf) must define a .fit() method.")
    ELSE IF ~clf.has_predict_proba
    THEN Val("The classifier (clf) must define a .predict_proba() method.")
    ELSE None

\* RankPruning.__init__
InitError(clf) ==
    IF ~clf.has_fit THEN Val("The classifier (clf) must define a .fit() method.")
    ELSE IF ~clf.has_predict_proba
    THEN Val("The classifier (clf) must define a .predict_proba() method.")
    ELSE IF ~clf.has_predict
    THEN Val("The classifier (clf) must define a .predict() method.")
    ELSE None

SeedGlobal(state, seed) ==
    IF ~IsNone(seed) THEN [seeded |-> seed, drawn |-> FALSE] ELSE state

NewEstimator(clf, seed, cv_n_folds, pulearning) ==
    [kind |-> "RankPruning", clf |-> clf, seed |-> seed, cv_n_folds |-> cv_n_folds,
     pulearning |-> pulearning,
     K |-> Unset, ps |-> Unset, py |-> Unset, noise_matrix |-> Unset,
     inverse_noise_matrix |-> Unset, confident_joint |-> Unset,
     noise_mask |-> Unset, sample_weight |-> Unset]

Construct ==
    /\ rp.kind = "absent"
    /\ \E clfArg \in ClfArgs, seed \in SeedArgs, cv_n_folds \in CvFoldsArgs,
          pulearning \in PulearningArgs :
         LET clf == IF IsNone(clfArg) THEN logreg ELSE clfArg.val
             err == InitError(clf)
         IN  /\ call' = [op |-> "__init__", clf |-> clfArg, seed |-> seed,
                         status |-> IF IsNone(err) THEN "returned" ELSE "raised",
                         error |-> err]
             /\ log' = <<>>
             /\ IF IsNone(err)
                THEN /\ np_random_state' = SeedGlobal(np_random_state, seed)
                     /\ rp' = NewEstimator(clf, seed, cv_n_folds, pulearning)
                ELSE UNCHANGED <<np_random_state, rp>>
             /\ UNCHANGED <<fits, REGISTRY>>

----------------------------------------------------------------------------
\* Datasets.  Examples with the same label are interchangeable, so a label
\* vector is listed once, in non-decreasing order.
LabelVectors ==
    {s \in [1..MaxN -> Labels] : \A i \in 1..(MaxN - 1) : s[i] <= s[i + 1]}

Range(x) == {x[i] : i \in DOMAIN x}

\* len(np.unique(s))
NumUnique(s) == Cardinality(Range(s))

Count(s, k) == Cardinality({i \in DOMAIN s : s[i] = k})

\* A feature matrix of n rows.
Features(n) == [i \in 1..n |-> i]

\* A psx matrix is known by its number of rows and by who computed it.
Psx(rows, by) == [rows |-> rows, by |-> by]

\* K x K matrices m[i][j] in units of 1/Unit; every column sums to Unit.
Classes(K) == 0..(K - 1)

Matrix(K, Entry(_, _)) == [i \in Classes(K) |-> [j \in Classes(K) |-> Entry(i, j)]]

Dim(m) == Cardinality(DOMAIN m)

RECURSIVE TraceUpTo(_, _)
TraceUpTo(m, n) == IF n < 0 THEN 0 ELSE m[n][n] + TraceUpTo(m, n - 1)

\* np.trace(m)
Trace(m) == TraceUpTo(m, Dim(m) - 1)

RECURSIVE ColumnSumUpTo(_, _, _)
ColumnSumUpTo(m, j, n) == IF n < 0 THEN 0 ELSE m[n][j] + ColumnSumUpTo(m, j, n - 1)

ColumnSum(m, j) == ColumnSumUpTo(m, j, Dim(m) - 1)

\* No label noise.
IdentityMatrix(K) ==
    LET E(i, j) == IF i = j THEN Unit ELSE 0 IN Matrix(K, E)

\* Every class loses some of its examples to the next class: an even class
\* 1/Unit of them, an odd class 2/Unit.
NoisyMatrix(K) ==
    LET L(j) == 1 + (j % 2)
        E(i, j) == (IF i = j THEN Unit - L(j) ELSE 0) + (IF i = (j + 1) % K THEN L(j) ELSE 0)
    IN  Matrix(K, E)

\* A matrix of trace exactly 1 (for K = 2 and Unit = 4: diagonal 3/4, 1/4).
BoundaryMatrix(K) ==
    LET D(j) == IF j = 0 THEN Unit - (K - 1) ELSE 1
        E(i, j) == (IF i = j THEN D(j) ELSE 0)
                   + (IF i = (j + 1) % K THEN Unit - D(j) ELSE 0)
    IN  Matrix(K, E)

\* What a caller may pass as noise_matrix or inverse_noise_matrix for K classes.
MatrixArgs(K) == {None, Val(NoisyMatrix(K)), Val(BoundaryMatrix(K))}

----------------------------------------------------------------------------
\* The collaborators of fit (cleanlab.util, latent_algebra, latent_estimation,
\* pruning), by their documented contracts.

\* assert_inputs_are_valid(X, s, psx): matching lengths and labels in 0..K-1.
InputsAreValid(X, s, psx) ==
    /\ Len(X) = Len(s)
    /\ IsNone(psx) \/ psx.val.rows = Len(s)
    /\ Range(s) = Classes(NumUnique(s))

\* value_counts(s) / float(len(s)): the fraction num/den of every class.
Frac(n, d) == [num |-> n, den |-> d]

NoisyPrior(s) == [k \in Classes(NumUnique(s)) |-> Frac(Count(s, k), Len(s))]

\* What the estimation routines may come to for the labels s: either that
\* the labels carry no noise (the true prior is the noisy prior, both
\* matrices are the identity), or that they carry some (the prior with the
\* class order reversed, both matrices noisy).  The confident joint counts
\* every example as correctly labeled.
Estimates(s) ==
    LET K == NumUnique(s)
        ps == NoisyPrior(s)
        C(i, j) == IF i = j THEN Count(s, i) ELSE 0
    IN  {[py |-> ps, noise_matrix |-> IdentityMatrix(K),
          inverse_noise_matrix |-> IdentityMatrix(K),
          confident_joint |-> Matrix(K, C)],
         [py |-> [k \in Classes(K) |-> ps[K - 1 - k]],
          noise_matrix |-> NoisyMatrix(K),
          inverse_noise_matrix |-> NoisyMatrix(K),
          confident_joint |-> Matrix(K, C)]}

\* A stratified split into cv_n_folds folds fails when a class has fewer
\* members than folds.
CvFails(s, cv_n_folds) == \E k \in Range(s) : Count(s, k) < cv_n_folds

\* Cross-validation draws its shuffle from the generator of its seed; with
\* seed None it draws from the process-global generator.
CvDraw(state, seed) == IF IsNone(seed) THEN [state EXCEPT !.drawn = TRUE] ELSE state

\* remove_noise_from_class(noise_matrix, class_without_noise): no example
\* flips into or out of the class; the diagonal takes up what was removed.
remove_noise_from_class(m, c) ==
    LET Z(i, j) == IF i # j /\ (i = c \/ j = c) THEN 0 ELSE m[i][j]
        z == Matrix(Dim(m), Z)
        E(i, j) == IF i = j THEN Unit - (ColumnSum(z, j) - z[j][j]) ELSE z[i][j]
    IN  Matrix(Dim(m), E)

\* The noise masks get_noise_indices may return: of every class, the first
\* example is pruned or none is.
Masks(s) ==
    {m \in [DOMAIN s -> BOOLEAN] :
        \A i \in DOMAIN s : m[i] => \A j \in DOMAIN s : s[j] = s[i] => i <= j}

----------------------------------------------------------------------------
\* RankPruning.fit.  The method is run as a chain of steps over a frame: the
\* estimator, the calls made so far, the local psx, the global generator and
\* the exception raised, if any.  A step does nothing once one was raised.
Frame(e, l, psx, np, err) == [rp |-> e, log |-> l, psx |-> psx, np |-> np, err |-> err]

Failed(f) == ~IsNone(f.err)

\* The check with < written for <=.
TraceBelowOne(m) == Trace(m) < Unit

\* np.trace(m) <= 1
TraceTooSmall(m) == Trace(m) <= Unit

\* Check inputs: the exception of the first check that fails, or None.
FitCheckInputs(X, s, psx, noise_matrix, inverse_noise_matrix) ==
    IF ~InputsAreValid(X, s, psx) THEN Val("assert_inputs_are_valid")
    ELSE IF ~IsNone(noise_matrix) /\ TraceTooSmall(noise_matrix.val)
    THEN Val("Trace(noise_matrix) must exceed 1.")
    ELSE IF ~IsNone(inverse_noise_matrix) /\ TraceTooSmall(inverse_noise_matrix.val)
    THEN Val("Trace(inverse_noise_matrix) must exceed 1.")
    ELSE None

\* self.K, self.ps, self.confident_joint = None
FitBegin(e, s) ==
    [e EXCEPT !.K = Val(NumUnique(s)), !.ps = Val(NoisyPrior(s)),
              !.confident_joint = None]

\* if noise_matrix is not None: ...
ResolveFromNoiseMatrix(f, noise_matrix, inverse_noise_matrix, o) ==
    IF Failed(f) \/ IsNone(noise_matrix) THEN f
    ELSE LET e1 == [f.rp EXCEPT !.noise_matrix = noise_matrix]
         IN  IF ~IsNone(inverse_noise_matrix) THEN [f EXCEPT !.rp = e1]
             ELSE [f EXCEPT
                     !.rp = [e1 EXCEPT !.py = Val(o.estimate.py),
                                       !.inverse_noise_matrix = Val(o.estimate.inverse_noise_matrix)],
                     !.log = Append(@, Evt("compute_py_inv_noise_matrix",
                                           <<e1.ps.val, e1.noise_matrix.val>>,
                                           <<o.estimate.py, o.estimate.inverse_noise_matrix>>))]

\* if inverse_noise_matrix is not None: ...
ResolveFromInverse(f, noise_matrix, inverse_noise_matrix, o) ==
    IF Failed(f) \/ IsNone(inverse_noise_matrix) THEN f
    ELSE LET e1 == [f.rp EXCEPT !.inverse_noise_matrix = inverse_noise_matrix]
         IN  IF ~IsNone(noise_matrix) THEN [f EXCEPT !.rp = e1]
             ELSE [f EXCEPT
                     !.rp = [e1 EXCEPT !.noise_matrix = Val(o.estimate.noise_matrix)],
                     !.log = Append(@, Evt("compute_noise_matrix_from_inverse",
                                           <<e1.ps.val, e1.inverse_noise_matrix.val>>,
                                           o.estimate.noise_matrix))]

\* The test with or written for and.
NeedsEstimationEither(noise_matrix, inverse_noise_matrix) ==
    IsNone(noise_matrix) \/ IsNone(inverse_noise_matrix)

\* if noise_matrix is None and inverse_noise_matrix is None
NeedsEstimation(noise_matrix, inverse_noise_matrix) ==
    IsNone(noise_matrix) /\ IsNone(inverse_noise_matrix)

Estimated(e, o) ==
    [e EXCEPT !.py = Val(o.estimate.py), !.noise_matrix = Val(o.estimate.noise_matrix),
              !.inverse_noise_matrix = Val(o.estimate.inverse_noise_matrix),
              !.confident_joint = Val(o.estimate.confident_joint)]

ResolveByEstimation(f, X, s, noise_matrix, inverse_noise_matrix, o) ==
    IF Failed(f) \/ ~NeedsEstimation(noise_matrix, inverse_noise_matrix) THEN f
    ELSE IF IsNone(f.psx)
    THEN LET args == <<X, s, f.rp.cv_n_folds, f.rp.seed>>
             psx == Psx(Len(s), "estimate_py_noise_matrices_and_cv_pred_proba")
         IN  IF CvFails(s, f.rp.cv_n_folds)
             THEN [f EXCEPT
                     !.log = Append(@, Evt("estimate_py_noise_matrices_and_cv_pred_proba",
                                           args, Raised)),
                     !.err = Val("cross-validation: class smaller than cv_n_folds")]
             ELSE [f EXCEPT
                     !.rp = Estimated(@, o),
                     !.psx = Val(psx),
                     !.np = CvDraw(@, f.rp.seed),
                     !.log = Append(@, Evt("estimate_py_noise_matrices_and_cv_pred_proba",
                                           args,
                                           <<o.estimate.py, o.estimate.noise_matrix, o.estimate.inverse_noise_matrix,
                                             o.estimate.confident_joint, psx>>))]
    ELSE [f EXCEPT
            !.rp = Estimated(@, o),
            !.log = Append(@, Evt("estimate_py_and_noise_matrices_from_probabilities",
                                  <<s, f.psx.val>>,
                                  <<o.estimate.py, o.estimate.noise_matrix, o.estimate.inverse_noise_matrix,
                                    o.estimate.confident_joint>>))]

\* if psx is None: psx = estimate_cv_predicted_probabilities(...)
FitCvPsx(f, X, s) ==
    IF Failed(f) \/ ~IsNone(f.psx) THEN f
    ELSE LET args == <<X, s, f.rp.cv_n_folds, f.rp.seed>>
             psx == Psx(Len(s), "estimate_cv_predicted_probabilities")
         IN  IF CvFails(s, f.rp.cv_n_folds)
             THEN [f EXCEPT
                     !.log = Append(@, Evt("estimate_cv_predicted_probabilities",
                                           args, Raised)),
                     !.err = Val("cross-validation: class smaller than cv_n_folds")]
             ELSE [f EXCEPT
                     !.psx = Val(psx),
                     !.np = CvDraw(@, f.rp.seed),
                     !.log = Append(@, Evt("estimate_cv_predicted_probabilities",
                                           args, psx))]

\* The test written as the truth value of self.pulearning.
PulearningTruthy(pulearning) == ~IsNone(pulearning) /\ pulearning.val # 0

\* if self.pulearning is not None
PulearningApplies(pulearning) == ~IsNone(pulearning)

FitPulearning(f) ==
    IF Failed(f) \/ ~PulearningApplies(f.rp.pulearning) THEN f
    ELSE LET m == f.rp.noise_matrix.val
             c == f.rp.pulearning.val
         IN  IF c \notin DOMAIN m
             THEN [f EXCEPT
                     !.log = Append(@, Evt("remove_noise_from_class", <<m, c>>, Raised)),
                     !.err = Val("remove_noise_from_class: index out of bounds")]
             ELSE [f EXCEPT
                     !.rp = [@ EXCEPT !.noise_matrix = Val(remove_noise_from_class(m, c))],
                     !.log = Append(@, Evt("remove_noise_from_class", <<m, c>>,
                                           remove_noise_from_class(m, c)))]

\* self.noise_mask = get_noise_indices(...)
FitNoiseMask(f, s, o) ==
    IF Failed(f) THEN f
    ELSE [f EXCEPT
            !.rp = [@ EXCEPT !.noise_mask = Val(o.noise_mask)],
            !.log = Append(@, Evt("get_noise_indices",
                                  <<s, f.psx.val, f.rp.inverse_noise_matrix.val,
                                    f.rp.confident_joint>>,
                                  o.noise_mask))]

\* x[mask] for a boolean mask
RECURSIVE Select(_, _)
Select(x, mask) ==
    IF x = <<>> THEN <<>>
    ELSE (IF Head(mask) THEN <<Head(x)>> ELSE <<>>) \o Select(Tail(x), Tail(mask))

\* ~mask
Negate(mask) == [i \in DOMAIN mask |-> ~mask[i]]

\* The probe left out: every classifier is taken to accept sample_weight.
SampleWeightAssumed(clf) == TRUE

\* 'sample_weight' in inspect.getfullargspec(self.clf.fit).args
SampleWeightSupported(clf) == clf.fit_sample_weight

\* The weights left at np.ones.
SampleWeightOnes(K, s_pruned, noise_matrix) == [i \in DOMAIN s_pruned |-> Frac(1, 1)]

\* np.ones(np.shape(s_pruned)), then for k in range(K): 1.0 / noise_matrix[k][k]
SampleWeight(K, s_pruned, noise_matrix) ==
    [i \in DOMAIN s_pruned |->
        IF s_pruned[i] \in Classes(K)
        THEN Frac(Unit, noise_matrix[s_pruned[i]][s_pruned[i]])
        ELSE Frac(1, 1)]

\* The final fit on the whole of (X, s) instead of the pruned set.
FitFinalUnpruned(f, X, s) ==
    IF Failed(f) THEN f
    ELSE LET args == <<X, s, Unset>>
         IN  [f EXCEPT
                !.rp = [@ EXCEPT !.clf = [@ EXCEPT !.trained = Val(args)]],
                !.log = Append(@, Evt("clf.fit", args, None))]

\* The pruned training set, the weights and the final fit of self.clf.
FitFinal(f, X, s) ==
    IF Failed(f) THEN f
    ELSE LET X_mask == Negate(f.rp.noise_mask.val)
             X_pruned == Select(X, X_mask)
             s_pruned == Select(s, X_mask)
         IN  IF SampleWeightSupported(f.rp.clf)
             THEN LET w == SampleWeight(f.rp.K.val, s_pruned, f.rp.noise_matrix.val)
                      args == <<X_pruned, s_pruned, Val(w)>>
                  IN  [f EXCEPT
                         !.rp = [@ EXCEPT !.sample_weight = Val(w),
                                          !.clf = [@ EXCEPT !.trained = Val(args)]],
                         !.log = Append(@, Evt("clf.fit", args, None))]
             ELSE LET args == <<X_pruned, s_pruned, Unset>>
                  IN  [f EXCEPT
                         !.rp = [@ EXCEPT !.clf = [@ EXCEPT !.trained = Val(args)]],
                         !.log = Append(@, Evt("clf.fit", args, None))]

FitRun(e, np, X, s, psx, noise_matrix, inverse_noise_matrix, o) ==
    LET err == FitCheckInputs(X, s, psx, noise_matrix, inverse_noise_matrix)
        l0 == <<Evt("assert_inputs_are_valid", <<X, s, psx>>,
                    IF InputsAreValid(X, s, psx) THEN None ELSE Raised)>>
    IN  IF ~IsNone(err) THEN Frame(e, l0, psx, np, err)
        ELSE LET f0 == Frame(FitBegin(e, s), l0, psx, np, None)
                 f1 == ResolveFromNoiseMatrix(f0, noise_matrix, inverse_noise_matrix, o)
                 f2 == ResolveFromInverse(f1, noise_matrix, inverse_noise_matrix, o)
                 f3 == ResolveByEstimation(f2, X, s, noise_matrix, inverse_noise_matrix, o)
                 f4 == FitCvPsx(f3, X, s)
                 f5 == FitPulearning(f4)
                 f6 == FitNoiseMask(f5, s, o)
             IN  FitFinal(f6, X, s)

\* What the collaborators return in one fit call: the estimate and the
\* noise mask.  A call that reaches no estimation routine, or does not reach
\* get_noise_indices, gets one fixed entry for it.
Oracles(e, X, s, psx, noise_matrix, inverse_noise_matrix) ==
    LET checked == IsNone(FitCheckInputs(X, s, psx, noise_matrix, inverse_noise_matrix))
        cvOk == ~IsNone(psx) \/ ~CvFails(s, e.cv_n_folds)
        both == ~IsNone(noise_matrix) /\ ~IsNone(inverse_noise_matrix)
        estimates == checked /\ ~both
                     /\ (cvOk \/ ~NeedsEstimation(noise_matrix, inverse_noise_matrix))
        prunes == checked /\ cvOk
                  /\ (IsNone(e.pulearning) \/ e.pulearning.val \in Classes(NumUnique(s)))
        fixed == CHOOSE x \in Estimates(s) : x.py = NoisyPrior(s)
    IN  [estimate : IF estimates THEN Estimates(s) ELSE {fixed},
         noise_mask : IF prunes THEN Masks(s) ELSE {[i \in DOMAIN s |-> FALSE]}]

\* The calls followed: every label vector with a feature matrix of its
\* length, psx given or not, each matrix given or not; and the balanced
\* label vector with a feature matrix, or a psx, one row short.
Balanced == [i \in 1..MaxN |-> IF 2 * i <= MaxN THEN 0 ELSE 1]

MatrixChoices ==
    UNION {{<<s, nm, inm>> : nm \in MatrixArgs(NumUnique(s)),
                             inm \in MatrixArgs(NumUnique(s))} : s \in LabelVectors}

FitArgs ==
    {[X |-> Features(MaxN), s |-> c[1], psx |-> psx,
      noise_matrix |-> c[2], inverse_noise_matrix |-> c[3]] :
        psx \in {None, Val(Psx(MaxN, "caller"))}, c \in MatrixChoices}
    \cup {[X |-> Features(MaxN - 1), s |-> Balanced, psx |-> None,
           noise_matrix |-> None, inverse_noise_matrix |-> None],
          [X |-> Features(MaxN), s |-> Balanced, psx |-> Val(Psx(MaxN - 1, "caller")),
           noise_matrix |-> None, inverse_noise_matrix |-> None]}

\* One fit call on the estimator.
FitCall ==
    /\ rp.kind = "RankPruning"
    /\ call.op \in {"__init__", "fit"}
    /\ \E a \in FitArgs :
       \E o \in Oracles(rp, a.X, a.s, a.psx, a.noise_matrix, a.inverse_noise_matrix) :
       \E f \in {FitRun(rp, np_random_state, a.X, a.s, a.psx, a.noise_matrix,
                       a.inverse_noise_matrix, o)} :
             /\ rp' = f.rp
             /\ np_random_state' = f.np
             /\ log' = f.log
             /\ call' = [op |-> "fit", X |-> a.X, s |-> a.s, psx |-> a.psx,
                         noise_matrix |-> a.noise_matrix,
                         inverse_noise_matrix |-> a.inverse_noise_matrix,
                         status |-> IF Failed(f) THEN "raised" ELSE "returned",
                         error |-> f.err]
             /\ fits' = fits + 1
             /\ UNCHANGED REGISTRY

Fit == fits < MaxFits /\ FitCall

\* A fit call on an estimator that may have been fitted before.
Refit == fits < MaxRefits /\ FitCall

----------------------------------------------------------------------------
\* RankPruning.predict, predict_proba and score, on a test set (X, y).  The
\* estimator is trained first and queried afterwards: no fit call follows a
\* query.
Predict ==
    /\ rp.kind = "RankPruning"
    /\ log' = <<Evt("clf.predict", <<"X">>, "labels")>>
    /\ call' = [op |-> "predict", status |-> "returned", error |-> None,
                value |-> Val("clf.predict")]
    /\ UNCHANGED <<rp, np_random_state, fits, REGISTRY>>

PredictProba ==
    /\ rp.kind = "RankPruning"
    /\ log' = <<Evt("clf.predict_proba", <<"X">>, "probabilities")>>
    /\ call' = [op |-> "predict_proba", status |-> "returned", error |-> None,
                value |-> Val("clf.predict_proba")]
    /\ UNCHANGED <<rp, np_random_state, fits, REGISTRY>>

\* The names score can read: its parameters, and the names the module binds.
ScoreNames == {"self", "X", "y", "sample_weight", "accuracy_score", "inspect", "np"}

\* What score does: the calls it makes, and what it returns or raises.
ScoreRun(clf, sample_weight) ==
    IF clf.has_score
    THEN IF clf.score_sample_weight
         THEN [log |-> <<Evt("clf.score", <<"X", "y", Val(sample_weight)>>, "score")>>,
               error |-> None, value |-> Val("clf.score")]
         ELSE [log |-> <<Evt("clf.score", <<"X", "y", Unset>>, "score")>>,
               error |-> None, value |-> Val("clf.score")]
    ELSE IF "X_val" \notin ScoreNames
    THEN [log |-> <<>>, error |-> Val("NameError: name 'X_val' is not defined"),
          value |-> Unset]
    ELSE [log |-> <<Evt("clf.predict", <<"X_val">>, "labels"),
                    Evt("accuracy_score", <<"y", "labels", sample_weight>>, "accuracy")>>,
          error |-> None, value |-> Val("accuracy_score")]

Score ==
    /\ rp.kind = "RankPruning"
    /\ \E sample_weight \in {None, Val("w")} :
       \E r \in {ScoreRun(rp.clf, sample_weight)} :
         /\ log' = r.log
         /\ call' = [op |-> "score", sample_weight |-> sample_weight,
                     status |-> IF IsNone(r.error) THEN "returned" ELSE "raised",
                     error |-> r.error, value |-> r.value]
    /\ UNCHANGED <<rp, np_random_state, fits, REGISTRY>>

----------------------------------------------------------------------------
\* The issue-manager registry (src/cleanlab/datalab/internal/
\* issue_manager_factory.py).  A class is known by its name, by whether it is
\* a subclass of IssueManager and by its issue_name; a dict is the sequence
\* of its items in insertion order.
Class(name, sub, issue_name) ==
    [name |-> name, is_issue_manager |-> sub, issue_name |-> issue_name]

OutlierIssueManager == Class("OutlierIssueManager", TRUE, "outlier")
LabelIssueManager == Class("LabelIssueManager", TRUE, "label")
NearDuplicateIssueManager == Class("NearDuplicateIssueManager", TRUE, "near_duplicate")
NonIIDIssueManager == Class("NonIIDIssueManager", TRUE, "non_iid")
ClassImbalanceIssueManager == Class("ClassImbalanceIssueManager", TRUE, "class_imbalance")
DataValuationIssueManager == Class("DataValuationIssueManager", TRUE, "data_valuation")
RegressionLabelIssueManager == Class("RegressionLabelIssueManager", TRUE, "label")

\* The classes a caller registers: a new issue type, a replacement for
\* "label", and a class that is no IssueManager.
TestIssueManager == Class("TestIssueManager", TRUE, "test_for_list_possible_issue_types")
MyLabelIssueManager == Class("MyLabelIssueManager", TRUE, "label")
NotAnIssueManager == Class("NotAnIssueManager", FALSE, "not_an_issue")

Item(key, value) == [key |-> key, value |-> value]

InitialRegistry ==
    [task \in {"classification", "regression"} |->
        IF task = "classification"
        THEN <<Item("outlier", OutlierIssueManager),
               Item("label", LabelIssueManager),
               Item("near_duplicate", NearDuplicateIssueManager),
               Item("non_iid", NonIIDIssueManager),
               Item("class_imbalance", ClassImbalanceIssueManager),
               Item("data_valuation", DataValuationIssueManager)>>
        ELSE <<Item("label", RegressionLabelIssueManager)>>]

\* list(d), key in d, d[key] and d[key] = value for a dict d.
Keys(d) == [i \in DOMAIN d |-> d[i].key]

HasKey(d, key) == \E i \in DOMAIN d : d[i].key = key

GetItem(d, key) == d[CHOOSE i \in DOMAIN d : d[i].key = key].value

\* The assignment that drops what the dict held.
SetItemAlone(d, key, value) == <<Item(key, value)>>

SetItem(d, key, value) ==
    IF HasKey(d, key)
    THEN [i \in DOMAIN d |-> IF d[i].key = key THEN Item(key, value) ELSE d[i]]
    ELSE Append(d, Item(key, value))

\* An issue_type argument: the string v, or the list [v] of one string.
StrArg(v) == [type |-> "str", v |-> v]
ListArg(v) == [type |-> "list", v |-> v]

TaskArgs == {"classification", "regression", "clustering"}
RegisterArgs == {TestIssueManager, MyLabelIssueManager, NotAnIssueManager}
IssueTypeNames == {"outlier", "label", "test_for_list_possible_issue_types", "no_such_issue"}
IssueTypeArgs == {StrArg(n) : n \in IssueTypeNames} \cup {ListArg("label")}

\* What a call comes to: the value it returns or the ValueError it raises.
Returns(v) == [error |-> None, value |-> Val(v)]
Raises(msg) == [error |-> Val(msg), value |-> Unset]

\* _IssueManagerFactory.from_str
from_str(R, issue_type, task) ==
    IF issue_type.type = "list"
    THEN Raises("issue_type must be a string, not a list. Try using from_list instead.")
    ELSE IF task \notin DOMAIN R THEN Raises("Invalid task type")
    ELSE IF ~HasKey(R[task], issue_type.v) THEN Raises("Invalid issue type")
    ELSE Returns(GetItem(R[task], issue_type.v))

\* _IssueManagerFactory.from_list: the classes of the issue types in order,
\* or the error of the first from_str that raises.
RECURSIVE from_list(_, _, _)
from_list(R, issue_types, task) ==
    IF issue_types = <<>> THEN Returns(<<>>)
    ELSE LET first == from_str(R, Head(issue_types), task)
         IN  IF ~IsNone(first.error) THEN first
             ELSE LET rest == from_list(R, Tail(issue_types), task)
                  IN  IF ~IsNone(rest.error) THEN rest
                      ELSE Returns(<<first.value.val>> \o rest.value.val)

\* register: the registry it leaves, what it printed, and its outcome.
register(R, cls, task) ==
    IF ~cls.is_issue_manager
    THEN [registry |-> R, log |-> <<>>,
          outcome |-> Raises("Class must be a subclass of IssueManager")]
    ELSE LET name == cls.issue_name
         IN  IF task \notin DOMAIN R
             THEN [registry |-> R, log |-> <<>>, outcome |-> Raises("Invalid task type")]
             ELSE [registry |-> [R EXCEPT ![task] = SetItem(@, name, cls)],
                   log |-> IF HasKey(R[task], name)
                           THEN <<Evt("print", <<"Warning: Overwriting existing issue manager",
                                                 name, cls.name, task>>, None)>>
                           ELSE <<>>,
                   outcome |-> Returns(cls)]

\* The list read off the registry as it was at import.
ListImportedIssueTypes(R, task) ==
    IF task \in DOMAIN InitialRegistry THEN Keys(InitialRegistry[task]) ELSE <<>>

\* list(REGISTRY.get(task, []))
list_possible_issue_types(R, task) ==
    IF task \in DOMAIN R THEN Keys(R[task]) ELSE <<>>

list_default_issue_types(task) ==
    IF task = "regression" THEN <<"label">>
    ELSE <<"label", "outlier", "near_duplicate", "non_iid">>

\* The calls of a caller of the module.  The estimator takes no part.
Outcome(op, args, r) ==
    [op |-> op, args |-> args, status |-> IF IsNone(r.error) THEN "returned" ELSE "raised",
     error |-> r.error, value |-> r.value]

Register ==
    \E cls \in RegisterArgs, task \in TaskArgs :
    \E r \in {register(REGISTRY, cls, task)} :
        /\ REGISTRY' = r.registry
        /\ log' = r.log
        /\ call' = Outcome("register", <<cls, task>>, r.outcome)
        /\ UNCHANGED <<rp, np_random_state, fits>>

FromStr ==
    \E issue_type \in IssueTypeArgs, task \in TaskArgs :
        /\ call' = Outcome("from_str", <<issue_type, task>>,
                           from_str(REGISTRY, issue_type, task))
        /\ log' = <<>>
        /\ UNCHANGED <<rp, np_random_state, fits, REGISTRY>>

IssueTypeLists == UNION {[1..n -> IssueTypeArgs] : n \in 0..MaxTypes}

FromList ==
    \E issue_types \in IssueTypeLists, task \in TaskArgs :
        /\ call' = Outcome("from_list", <<issue_types, task>>,
                           from_list(REGISTRY, issue_types, task))
        /\ log' = <<>>
        /\ UNCHANGED <<rp, np_random_state, fits, REGISTRY>>

ListPossibleIssueTypes ==
    \E task \in TaskArgs :
        /\ call' = Outcome("list_possible_issue_types", <<task>>,
                           Returns(list_possible_issue_types(REGISTRY, task)))
        /\ log' = <<>>
        /\ UNCHANGED <<rp, np_random_state, fits, REGISTRY>>

ListDefaultIssueTypes ==
    \E task \in TaskArgs :
        /\ call' = Outcome("list_default_issue_types", <<task>>,
                           Returns(list_default_issue_types(task)))
        /\ log' = <<>>
        /\ UNCHANGED <<rp, np_random_state, fits, REGISTRY>>

----------------------------------------------------------------------------
Init ==
    /\ rp = NoEstimator
    /\ np_random_state = AmbientState
    /\ log = <<>>
    /\ call = [op |-> "none", status |-> "returned", error |-> None]
    /\ fits = 0
    /\ REGISTRY = InitialRegistry

Next == Construct \/ Fit \/ Predict \/ PredictProba \/ Score

Spec == Init /\ [][Next]_vars

\* One estimator constructed and fitted more than once.
RefitNext == Construct \/ Refit

RefitSpec == Init /\ [][RefitNext]_vars

\* The registry on its own: the calls of the factory module.
FactoryNext ==
    Register \/ FromStr \/ FromList \/ ListPossibleIssueTypes \/ ListDefaultIssueTypes

FactorySpec == Init /\ [][FactoryNext]_vars

----------------------------------------------------------------------------
\* Properties.  Each is about the call recorded in `call` and `log`.
FitCalled == call.op = "fit"
FitReturned == FitCalled /\ call.status = "returned"
FitRaised == FitCalled /\ call.status = "raised"

\* The cross-validation routines, and the routines that estimate or derive
\* noise matrices.
CvOps == {"estimate_py_noise_matrices_and_cv_pred_proba",
          "estimate_cv_predicted_probabilities"}
NoiseEstimationOps == {"estimate_py_noise_matrices_and_cv_pred_proba",
                       "estimate_py_and_noise_matrices_from_probabilities",
                       "compute_py_inv_noise_matrix",
                       "compute_noise_matrix_from_inverse"}

Calls(ops) == {i \in DOMAIN log : log[i].op \in ops}
Pruned(mask) == {i \in DOMAIN mask : mask[i]}

\* C1: a fit call given a noise_matrix of trace <= 1, or an
\* inverse_noise_matrix of trace <= 1, raises, and up to the raise it has
\* called no cross-validation routine and no fit of the wrapped classifier.
C1_TraceRaisesBeforeAnyWork ==
    (FitCalled
     /\ \/ IsVal(call.noise_matrix) /\ Trace(call.noise_matrix.val) <= Unit
        \/ IsVal(call.inverse_noise_matrix) /\ Trace(call.inverse_noise_matrix.val) <= Unit)
    => /\ call.status = "raised"
       /\ Calls(CvOps \cup {"clf.fit"}) = {}

\* A fit call without psx, given a noise_matrix of trace exactly 1, has raised
\* the trace error after the input check alone.
C1_Witness ==
    /\ FitRaised
    /\ IsNone(call.psx)
    /\ IsVal(call.noise_matrix) /\ Trace(call.noise_matrix.val) = Unit
    /\ call.error = Val("Trace(noise_matrix) must exceed 1.")
    /\ Len(log) = 1

\* C2: after a fit call that returns, noise_mask, sample_weight, py, ps,
\* noise_matrix, inverse_noise_matrix and confident_joint are all attributes
\* of the estimator (confident_joint possibly None).
C2_AllAttributesExposed ==
    FitReturned =>
        /\ rp.noise_mask.kind # "unset"
        /\ rp.sample_weight.kind # "unset"
        /\ rp.py.kind # "unset"
        /\ rp.ps.kind # "unset"
        /\ rp.noise_matrix.kind # "unset"
        /\ rp.inverse_noise_matrix.kind # "unset"
        /\ rp.confident_joint.kind # "unset"

\* C3: a fit call that returns has fitted the wrapped classifier exactly
\* once, on (X[~noise_mask], s[~noise_mask]), as its last call: after the
\* input check, after every estimation and adjustment, after the noise mask.
C3_OneFinalFitLast ==
    FitReturned =>
        LET n == Len(log)
            keep == Negate(rp.noise_mask.val)
        IN  /\ Cardinality(Calls({"clf.fit"})) = 1
            /\ log[n].op = "clf.fit"
            /\ log[n].args[1] = Select(call.X, keep)
            /\ log[n].args[2] = Select(call.s, keep)
            /\ log[1].op = "assert_inputs_are_valid"
            /\ n >= 3
            /\ log[n - 1].op = "get_noise_indices"
            /\ \A i \in Calls(NoiseEstimationOps \cup CvOps \cup {"remove_noise_from_class"}) :
                 1 < i /\ i < n - 1

\* A fit call without psx has returned after pruning an example.
C3_Witness ==
    /\ FitReturned
    /\ IsNone(call.psx)
    /\ Pruned(rp.noise_mask.val) # {}
    /\ Len(log[Len(log)].args[1]) < Len(call.X)

\* How fit resolves its estimates, with the noise_matrix it holds at the end
\* being Held(m) for the matrix m it resolved.
C4_Resolves(Held(_)) ==
    LET nm == call.noise_matrix
        inm == call.inverse_noise_matrix
        estimator == IF IsNone(call.psx)
                     THEN "estimate_py_noise_matrices_and_cv_pred_proba"
                     ELSE "estimate_py_and_noise_matrices_from_probabilities"
    IN  /\ Cardinality(Calls(CvOps)) = IF IsNone(call.psx) THEN 1 ELSE 0
        /\ (IsNone(nm) /\ IsNone(inm)) =>
             /\ Calls(NoiseEstimationOps) = Calls({estimator})
             /\ \E i \in Calls({estimator}) :
                  /\ rp.py = Val(log[i].ret[1])
                  /\ rp.noise_matrix = Val(Held(log[i].ret[2]))
                  /\ rp.inverse_noise_matrix = Val(log[i].ret[3])
                  /\ rp.confident_joint.kind = "value"
                  /\ rp.confident_joint.val = log[i].ret[4]
        /\ (IsVal(nm) /\ IsNone(inm)) =>
             /\ rp.noise_matrix = Val(Held(nm.val))
             /\ Calls(NoiseEstimationOps) = Calls({"compute_py_inv_noise_matrix"})
             /\ \E i \in Calls({"compute_py_inv_noise_matrix"}) :
                  /\ log[i].args = <<rp.ps.val, nm.val>>
                  /\ rp.py = Val(log[i].ret[1])
                  /\ rp.inverse_noise_matrix = Val(log[i].ret[2])
        /\ (IsNone(nm) /\ IsVal(inm)) =>
             /\ rp.inverse_noise_matrix = inm
             /\ Calls(NoiseEstimationOps) = Calls({"compute_noise_matrix_from_inverse"})
             /\ \E i \in Calls({"compute_noise_matrix_from_inverse"}) :
                  /\ log[i].args = <<rp.ps.val, inm.val>>
                  /\ rp.noise_matrix = Val(Held(log[i].ret))
        /\ (IsVal(nm) /\ IsVal(inm)) =>
             /\ rp.noise_matrix = Val(Held(nm.val))
             /\ rp.inverse_noise_matrix = inm
             /\ Calls(NoiseEstimationOps) = {}
             /\ IsNone(rp.confident_joint)

\* C4 as stated: neither matrix given, all four estimates are estimated; one
\* given, it is stored unchanged and the other derived from it and ps; both
\* given, both are stored unchanged, nothing is estimated and confident_joint
\* is None; cross-validation runs once without psx and never with it.
C4_StoredUnchanged ==
    FitReturned => LET Same(m) == m IN C4_Resolves(Same)

\* C4 as the code has it: the same, except that with pulearning set the
\* noise_matrix held after fit is the resolved one with the noise of class
\* pulearning removed.
C4_StoredUpToPulearning ==
    FitReturned =>
        LET Adjusted(m) == IF IsNone(rp.pulearning) THEN m
                           ELSE remove_noise_from_class(m, rp.pulearning.val)
        IN  C4_Resolves(Adjusted)

\* A fit call without psx, given only a noise_matrix, on an estimator with
\* pulearning set, has returned holding another noise_matrix than the given.
C4_Witness ==
    /\ FitReturned
    /\ IsNone(call.psx)
    /\ IsVal(call.noise_matrix) /\ IsNone(call.inverse_noise_matrix)
    /\ IsVal(rp.pulearning)
    /\ rp.noise_matrix # call.noise_matrix
    /\ Calls({"compute_py_inv_noise_matrix"}) # {}

\* C5: score delegates to the wrapped classifier's score when it has one,
\* passing sample_weight only if that score accepts it; when it has none,
\* score returns the accuracy of clf.predict(X) against y and does not fail.
C5_ScoreDelegatesOrFallsBack ==
    call.op = "score" =>
        /\ call.status = "returned"
        /\ IF rp.clf.has_score
           THEN /\ Ops(log) = {"clf.score"}
                /\ \A i \in DOMAIN log :
                     (log[i].args[3].kind = "value") <=> rp.clf.score_sample_weight
           ELSE /\ call.value.kind = "value"
                /\ call.value.val = "accuracy_score"
                /\ "clf.predict" \in Ops(log)

\* The position, among the examples a mask keeps, of the kept example j.
KeptPosition(mask, j) == Cardinality({i \in 1..j : ~mask[i]})

\* C6: when the wrapped classifier's fit accepts sample_weight, the
\* sample_weight of a fit call that returns has one entry per example the
\* noise mask keeps, and the entry of a kept example labeled k is
\* 1 / noise_matrix[k][k] for the noise_matrix the estimator holds.
C6_WeightPerSurvivor ==
    (FitReturned /\ rp.clf.fit_sample_weight) =>
        /\ rp.sample_weight.kind = "value"
        /\ LET w == rp.sample_weight.val
               mask == rp.noise_mask.val
               m == rp.noise_matrix.val
           IN  /\ Len(w) = Len(call.s) - Cardinality(Pruned(mask))
               /\ \A j \in DOMAIN call.s :
                    ~mask[j] =>
                      LET k == call.s[j]
                          x == w[KeptPosition(mask, j)]
                      IN  x.num * m[k][k] = Unit * x.den

\* A fit call has returned on an estimator with a weighted classifier, after
\* pruning an example, with two different weights among the kept examples.
C6_Witness ==
    /\ FitReturned
    /\ rp.clf.fit_sample_weight
    /\ rp.sample_weight.kind = "value"
    /\ Pruned(rp.noise_mask.val) # {}
    /\ \E i, j \in DOMAIN rp.sample_weight.val :
         rp.sample_weight.val[i].den # rp.sample_weight.val[j].den

\* C7: when the wrapped classifier's fit has no sample_weight parameter, a
\* fit call never passes it sample_weight, and once the noise mask is
\* computed the call fits the classifier without it and returns.
C7_UnweightedFitCompletes ==
    (FitCalled /\ ~rp.clf.fit_sample_weight) =>
        /\ \A i \in Calls({"clf.fit"}) : log[i].args[3].kind = "unset"
        /\ Calls({"get_noise_indices"}) # {} =>
             /\ call.status = "returned"
             /\ log[Len(log)].op = "clf.fit"
             /\ rp.clf.trained.kind = "value"
             /\ rp.clf.trained.val = log[Len(log)].args

\* A fit call has returned on an estimator whose classifier takes no
\* sample_weight, after pruning an example.
C7_Witness ==
    /\ FitReturned
    /\ ~rp.clf.fit_sample_weight
    /\ Pruned(rp.noise_mask.val) # {}
    /\ log[Len(log)].op = "clf.fit"

\* C8: with pulearning set to a class c (0 included), after a fit call that
\* returns every off-diagonal entry of row c and of column c of noise_matrix
\* is zero, whether noise_matrix was given or estimated.
C8_PulearningZeroes ==
    (FitReturned /\ IsVal(rp.pulearning)) =>
        LET c == rp.pulearning.val
            m == rp.noise_matrix.val
        IN  \A j \in DOMAIN m : j # c => m[c][j] = 0 /\ m[j][c] = 0

\* A fit call given a noise_matrix with flips into and out of class 0 has
\* returned on an estimator with pulearning = 0.
C8_Witness ==
    /\ FitReturned
    /\ IsVal(rp.pulearning) /\ rp.pulearning.val = 0
    /\ IsVal(call.noise_matrix)
    /\ call.noise_matrix.val[0][1] # 0 /\ call.noise_matrix.val[1][0] # 0

\* C9: when a fit call raises an input-validation error (lengths, labels, a
\* class smaller than cv_n_folds), it has started no cross-validation, no
\* noise-matrix estimation and no fit of the wrapped classifier: no such
\* routine was called before the call that raised, and the estimator holds
\* no noise_matrix of that call.
C9_ValidationBeforeAnyWork ==
    (FitRaised
     /\ call.error.val \in {"assert_inputs_are_valid",
                            "cross-validation: class smaller than cv_n_folds"})
    => /\ Calls(CvOps \cup NoiseEstimationOps \cup {"clf.fit"}) \subseteq {Len(log)}
       /\ rp.noise_matrix.kind = "unset"

\* C10: no operation of the estimator changes the process-global random
\* state: it stays what it was before the estimator was constructed.
C10_GlobalRandomStateUntouched == np_random_state = AmbientState

----------------------------------------------------------------------------
\* Properties of the registry.
RegisterReturned == call.op = "register" /\ call.status = "returned"

----------------------------------------------------------------------------
\* C12: constructing the estimator with a classifier that lacks fit,
\* predict_proba or predict raises the ValueError naming the missing method
\* and leaves no estimator; constructing it with clf = None succeeds with a
\* logistic-regression classifier.
C12_ConstructChecksClassifier ==
    call.op = "__init__" =>
        /\ (IsVal(call.clf)
            /\ ~(call.clf.val.has_fit /\ call.clf.val.has_predict_proba
                 /\ call.clf.val.has_predict))
           => /\ call.status = "raised"
              /\ call.error.kind = "value"
              /\ call.error.val \in
                   {"The classifier (clf) must define a .fit() method.",
                    "The classifier (clf) must define a .predict_proba() method.",
                    "The classifier (clf) must define a .predict() method."}
              /\ rp = NoEstimator
        /\ IsNone(call.clf)
           => /\ call.status = "returned"
              /\ rp.kind = "RankPruning"
              /\ rp.clf = logreg

\* A construction with a classifier that has fit and predict_proba but no
\* predict has raised.
C12_Witness ==
    /\ call.op = "__init__"
    /\ call.clf = Val(NoPredictClf)
    /\ call.status = "raised"
    /\ rp = NoEstimator

----------------------------------------------------------------------------
\* C13: after a fit call that returns, however many fit calls the estimator
\* has seen, each of py, noise_matrix, inverse_noise_matrix, confident_joint
\* and sample_weight that the estimator holds was produced by that call:
\* it is an argument of the call, or the result of a routine the call ran,
\* or (confident_joint) the None the call stored.
C13_NoStaleEstimates ==
    FitReturned =>
        /\ IsVal(rp.py) =>
             \E i \in Calls({"compute_py_inv_noise_matrix",
                                   "estimate_py_noise_matrices_and_cv_pred_proba",
                                   "estimate_py_and_noise_matrices_from_probabilities"}) :
                  log[i].ret[1] = rp.py.val
        /\ IsVal(rp.noise_matrix) =>
             \/ rp.noise_matrix = call.noise_matrix
             \/ \E i \in Calls({"compute_noise_matrix_from_inverse",
                                   "remove_noise_from_class"}) :
                  log[i].ret = rp.noise_matrix.val
             \/ \E i \in Calls({"estimate_py_noise_matrices_and_cv_pred_proba",
                                   "estimate_py_and_noise_matrices_from_probabilities"}) :
                  log[i].ret[2] = rp.noise_matrix.val
        /\ IsVal(rp.inverse_noise_matrix) =>
             \/ rp.inverse_noise_matrix = call.inverse_noise_matrix
             \/ \E i \in Calls({"compute_py_inv_noise_matrix"}) :
                  log[i].ret[2] = rp.inverse_noise_matrix.val
             \/ \E i \in Calls({"estimate_py_noise_matrices_and_cv_pred_proba",
                                   "estimate_py_and_noise_matrices_from_probabilities"}) :
                  log[i].ret[3] = rp.inverse_noise_matrix.val
        /\ IsVal(rp.confident_joint) =>
             \E i \in Calls({"estimate_py_noise_matrices_and_cv_pred_proba",
                                "estimate_py_and_noise_matrices_from_probabilities"}) :
                  log[i].ret[4] = rp.confident_joint.val
        /\ IsVal(rp.sample_weight) =>
             \E i \in Calls({"clf.fit"}) : log[i].args[3] = rp.sample_weight

----------------------------------------------------------------------------
\* The entry of issue type n for task t in the registry R: its class, or None.
Entry(R, t, n) == IF HasKey(R[t], n) THEN Val(GetItem(R[t], n)) ELSE None

\* C14: a call of register, from_str, from_list, list_possible_issue_types
\* or list_default_issue_types never changes the set of tasks of REGISTRY; a
\* register(cls, task) that returns sets the entry REGISTRY[task][cls.issue_name]
\* to cls, new or overwritten, and changes no other entry; a call that raises
\* and a lookup or list call leave REGISTRY as it was.
C14_RegistryFrame ==
    [][/\ DOMAIN REGISTRY' = DOMAIN REGISTRY
       /\ IF call'.op = "register" /\ call'.status = "returned"
          THEN LET cls == call'.args[1]
                   task == call'.args[2]
               IN  /\ Entry(REGISTRY', task, cls.issue_name) = Val(cls)
                   /\ \A t \in DOMAIN REGISTRY :
                      \A n \in Range(Keys(REGISTRY[t])) \cup Range(Keys(REGISTRY'[t])) :
                         (t # task \/ n # cls.issue_name)
                         => Entry(REGISTRY', t, n) = Entry(REGISTRY, t, n)
                   /\ \A t \in DOMAIN REGISTRY :
                         Len(REGISTRY'[t]) = Cardinality(Range(Keys(REGISTRY'[t])))
          ELSE REGISTRY' = REGISTRY]_vars

\* register(MyLabelIssueManager, "regression") has returned after printing
\* the overwrite warning; the "label" entry of classification is untouched.
C14_Witness ==
    /\ RegisterReturned
    /\ call.args = <<MyLabelIssueManager, "regression">>
    /\ log # <<>>
    /\ Entry(REGISTRY, "regression", "label") = Val(MyLabelIssueManager)
    /\ Entry(REGISTRY, "classification", "label") = Val(LabelIssueManager)
====
